---- MODULE Spec2Model ----
(***************************************************************************)
(* Model of EcommerceScraper (src/scraper.py): the bounded-concurrency     *)
(* fetch pipeline of scrape_all, the retry loop of fetch_page and the      *)
(* record/error bookkeeping of parse_page.                                 *)
(*                                                                         *)
(* One page task is the coroutine scrape_page_wrapper(page).  A task only  *)
(* gives up control at its suspension points: waiting for a semaphore      *)
(* permit, waiting for the network inside session.get / response.text,     *)
(* and the backoff asyncio.sleep.  Every action below runs one task from   *)
(* one suspension point to the next, as the asyncio event loop does.       *)
(***************************************************************************)
EXTENDS Integers, Sequences, FiniteSets, TLC

\* ------------------------------------------------------------------ bounds
MaxPages == 2
MaxConcurrent == 2
MaxListings == 1
\* listings per page when parse_page is exercised on its own
MaxParseListings == 3

\* ------------------------------------------------------- program constants
\* for attempt in range(3)
MaxAttempts == 3
\* if attempt < 2
BackoffLimit == 2
\* asyncio.sleep(2 ** attempt)
BackoffBase == 2

\* return None (fetch_page); a value of the same shape as a text body
None == [text |-> "None", listings |-> <<>>]

\* Outcome of one network attempt (session.get ... response.text()).
\* "timeout" and "error" stand for asyncio.TimeoutError and any other
\* Exception raised anywhere inside the try block of the attempt.
Outcomes == {"http200", "http404", "http500", "timeout", "error"}

\* Text returned by response.text(): the empty string, a text that makes
\* BeautifulSoup/select raise (page-level fault), or readable html with K
\* listings, each well formed ("ok") or not ("bad").
RECURSIVE SeqsUpTo(_, _)
SeqsUpTo(S, n) ==
    IF n = 0 THEN {<<>>}
    ELSE LET shorter == SeqsUpTo(S, n - 1)
         IN  shorter \cup {Append(s, x) : s \in {t \in shorter : Len(t) = n - 1}, x \in S}

Bodies ==
    {[text |-> "", listings |-> <<>>], [text |-> "unreadable", listings |-> <<>>]}
    \cup {[text |-> "html", listings |-> l] : l \in SeqsUpTo({"ok", "bad"}, MaxListings)}

VARIABLES
    max_pages,       \* self.max_pages
    max_concurrent,  \* self.max_concurrent
    results,         \* self.results
    errors,          \* self.errors
    value,           \* semaphore._value
    waiters,         \* semaphore._waiters (FIFO)
    pc,              \* position of each page task
    attempt,         \* loop variable of fetch_page, per task
    tries,           \* number of session.get attempts issued, per page
    sleeps,          \* durations passed to asyncio.sleep, per task
    fetchCalls,      \* number of fetch_page calls, per page
    fetched,         \* what fetch_page returned: <<>> while pending, else one of Success/Failure
    parseCalls,      \* number of parse_page calls, per page
    produced,        \* the records parse_page appended, per page
    raisedBy,        \* tasks that ended with an exception
    doneQueue,       \* completed tasks not yet yielded by as_completed
    collected,       \* number of `await coro` that returned
    orch,            \* position of scrape_all
    elapsed,         \* time.time() - start_time: "unset", then "zero" or "positive"
    summary,         \* the counters logged at finalization (<<>> before)
    files            \* the spreadsheet files export_to_excel has written

vars == <<max_pages, max_concurrent, results, errors, value, waiters, pc, attempt,
          tries, sleeps, fetchCalls, fetched, parseCalls, produced, raisedBy,
          doneQueue, collected, orch, elapsed, summary, files>>

\* ------------------------------------------------------------- scrape_all
\* range(self.max_pages): pages numbered from 0
PageRangeFromZero(P) == 0..(P - 1)

\* range(1, self.max_pages + 1)
PageRange(P) == 1..P

Pages == PageRange(max_pages)

\* ------------------------------------------------------ asyncio.Semaphore
\* an acquire that never blocks
CanAcquireAlways(v, w) == TRUE

\* a semaphore that lets one task too many in
CanAcquireOneMore(v, w) == v >= 0 /\ w = <<>>

\* acquire() returns at once iff the semaphore is not locked.
CanAcquire(v, w) == v > 0 /\ w = <<>>

\* a release that returns the permit but wakes no waiter
ReleaseNoWake(v, w) == [value |-> v + 1, waiters |-> w, woken |-> {}]

\* a release that wakes a waiter but drops the permit when nobody waits
ReleaseLost(v, w) ==
    IF w # <<>>
    THEN [value |-> v, waiters |-> Tail(w), woken |-> {Head(w)}]
    ELSE [value |-> v, waiters |-> w, woken |-> {}]

\* release(): _value += 1, then the first waiter, if any, is woken and takes
\* the permit (_value -= 1).
Release(v, w) ==
    IF w # <<>>
    THEN [value |-> v, waiters |-> Tail(w), woken |-> {Head(w)}]
    ELSE [value |-> v + 1, waiters |-> w, woken |-> {}]

\* -------------------------------------------------------------- fetch_page
\* a client error (4xx) taken as final instead of retried
IsFinal4xx(o) == o \in {"http200", "http404"}

\* any response taken as a success, whatever its status
IsAnyResponse(o) == o \in {"http200", "http404", "http500"}

\* if response.status == 200: return await response.text()
IsSuccess(o) == o = "http200"

\* a backoff after every failed attempt, the last one included
NeedsBackoffAlways(a) == a <= BackoffLimit

\* if attempt < 2
NeedsBackoff(a) == a < BackoffLimit

\* 2 ** (attempt + 1)
BackoffOfNext(a) == BackoffBase ^ (a + 1)

\* 2 ** attempt
Backoff(a) == BackoffBase ^ a

\* one iteration too many
HasNextAttemptOffByOne(a) == a < MaxAttempts

\* for attempt in range(3): is there an iteration after attempt a
HasNextAttempt(a) == a + 1 < MaxAttempts

\* self.errors = [...]: the record replaces the list instead of joining it
FetchFailedOverwrites(errs, page) == <<[page |-> page, error |-> "Failed to fetch"]>>

\* an exhausted fetch that records nothing
FetchFailedSilently(errs, page) == errs

\* self.errors.append({'page': page_num, 'error': 'Failed to fetch'})
FetchFailed(errs, page) == Append(errs, [page |-> page, error |-> "Failed to fetch"])

\* -------------------------------------------------------------- parse_page
\* the records are collected in a list of their own that replaces results
RECURSIVE ParseListingsIntoNewList(_, _, _, _)
ParseListingsIntoNewList(listings, i, page, res) ==
    IF i > Len(listings) THEN <<>>
    ELSE (IF listings[i] = "ok" THEN <<[page |-> page, listing |-> i]>> ELSE <<>>)
            \o ParseListingsIntoNewList(listings, i + 1, page, res)

\* break instead of continue: the first malformed listing ends the loop
RECURSIVE ParseListingsStopsAtBad(_, _, _, _)
ParseListingsStopsAtBad(listings, i, page, res) ==
    IF i > Len(listings) \/ listings[i] # "ok" THEN res
    ELSE ParseListingsStopsAtBad(listings, i + 1, page,
                                 Append(res, [page |-> page, listing |-> i]))

\* The loop over the listings: one record per listing whose fields parse,
\* tagged with the page; a listing that raises is logged and skipped.
RECURSIVE ParseListings(_, _, _, _)
ParseListings(listings, i, page, res) ==
    IF i > Len(listings) THEN res
    ELSE ParseListings(listings, i + 1, page,
                       IF listings[i] = "ok"
                       THEN Append(res, [page |-> page, listing |-> i])
                       ELSE res)

\* no outer handler: the page-level fault leaves parse_page
PageFaultUncaught == FALSE

\* except Exception as e: (the outer handler of parse_page)
PageFaultCaught == TRUE

\* except Exception: pass -- the page-level fault is swallowed unreported
ParsePageSwallowsFault(html, page, res, errs) ==
    IF html.text \in {"unreadable", "None"}
    THEN [results |-> res, errors |-> errs, raised |-> FALSE]
    ELSE [results |-> ParseListings(html.listings, 1, page, res),
          errors |-> errs, raised |-> FALSE]

\* parse_page(html, page_num): the new results and errors, and whether an
\* exception leaves the function.  BeautifulSoup raises on a text it cannot
\* read and on None, before any record is appended.
ParsePage(html, page, res, errs) ==
    IF html.text \in {"unreadable", "None"}
    THEN IF PageFaultCaught
         THEN [results |-> res,
               errors |-> Append(errs, [page |-> page, error |-> "Parse error"]),
               raised |-> FALSE]
         ELSE [results |-> res, errors |-> errs, raised |-> TRUE]
    ELSE [results |-> ParseListings(html.listings, 1, page, res),
          errors |-> errs, raised |-> FALSE]

\* a wrapper that parses whatever fetch_page returned
TruthyAlways(html) == TRUE

\* if html:
Truthy(html) == html # None /\ html.text # ""

\* --------------------------------------------------------------- the state
\* EcommerceScraper(base_url, max_pages=P, max_concurrent=C), then scrape_all
\* up to its first await in the as_completed loop: every task is scheduled.
InitWith(P, C) ==
    /\ max_pages = P
    /\ max_concurrent = C
    /\ results = <<>>
    /\ errors = <<>>
    /\ value = max_concurrent
    /\ waiters = <<>>
    /\ pc = [p \in Pages |-> "new"]
    /\ attempt = [p \in Pages |-> 0]
    /\ tries = [p \in Pages |-> 0]
    /\ sleeps = [p \in Pages |-> <<>>]
    /\ fetchCalls = [p \in Pages |-> 0]
    /\ fetched = [p \in Pages |-> <<>>]
    /\ parseCalls = [p \in Pages |-> 0]
    /\ produced = [p \in Pages |-> <<>>]
    /\ raisedBy = {}
    /\ doneQueue = <<>>
    /\ collected = 0
    /\ orch = "collect"
    /\ elapsed = "unset"
    /\ summary = <<>>
    /\ files = {}

Init == \E P \in 0..MaxPages, C \in 1..MaxConcurrent : InitWith(P, C)

Holders == {p \in Pages : pc[p] \in {"granted", "attempting", "sleeping"}}

\* First step of a task: `async with semaphore`.  With a free permit the task
\* goes on into fetch_page and suspends in session.get; otherwise it queues.
Start(p) ==
    /\ pc[p] = "new"
    /\ IF CanAcquire(value, waiters)
       THEN /\ value' = value - 1
            /\ waiters' = waiters
            /\ pc' = [pc EXCEPT ![p] = "attempting"]
            /\ fetchCalls' = [fetchCalls EXCEPT ![p] = @ + 1]
            /\ tries' = [tries EXCEPT ![p] = @ + 1]
       ELSE /\ value' = value
            /\ waiters' = Append(waiters, p)
            /\ pc' = [pc EXCEPT ![p] = "waiting"]
            /\ UNCHANGED <<fetchCalls, tries>>
    /\ UNCHANGED <<max_pages, max_concurrent, results, errors, attempt, sleeps,
                   fetched, parseCalls, produced, raisedBy, doneQueue, collected,
                   orch, elapsed, summary, files>>

\* A woken waiter resumes holding its permit and enters fetch_page.
Resume(p) ==
    /\ pc[p] = "granted"
    /\ pc' = [pc EXCEPT ![p] = "attempting"]
    /\ fetchCalls' = [fetchCalls EXCEPT ![p] = @ + 1]
    /\ tries' = [tries EXCEPT ![p] = @ + 1]
    /\ UNCHANGED <<max_pages, max_concurrent, results, errors, value, waiters, attempt,
                   sleeps, fetched, parseCalls, produced, raisedBy, doneQueue,
                   collected, orch, elapsed, summary, files>>

\* The rest of scrape_page_wrapper once fetch_page has returned html, with
\* errs the errors list as fetch_page left it: parse_page if html is truthy,
\* then the exit of `async with semaphore` and the end of the task.
AfterFetch(p, html, errs) ==
    LET parsed == IF Truthy(html)
                  THEN ParsePage(html, p, results, errs)
                  ELSE [results |-> results, errors |-> errs, raised |-> FALSE]
        rel == Release(value, waiters)
    IN  /\ fetched' = [fetched EXCEPT ![p] =
                          Append(@, IF html = None THEN "Failure" ELSE "Success")]
        /\ parseCalls' = [parseCalls EXCEPT ![p] = IF Truthy(html) THEN @ + 1 ELSE @]
        /\ produced' = [produced EXCEPT ![p] =
                            SubSeq(parsed.results, Len(results) + 1, Len(parsed.results))]
        /\ results' = parsed.results
        /\ errors' = parsed.errors
        /\ raisedBy' = IF parsed.raised THEN raisedBy \cup {p} ELSE raisedBy
        /\ value' = rel.value
        /\ waiters' = rel.waiters
        /\ pc' = [q \in Pages |-> IF q = p THEN "done"
                                  ELSE IF q \in rel.woken THEN "granted"
                                  ELSE pc[q]]
        /\ doneQueue' = Append(doneQueue, p)

\* The loop of fetch_page moves on after attempt a failed and any backoff is
\* over: the next attempt, or the fall-through to errors.append / return None.
NextIteration(p) ==
    IF HasNextAttempt(attempt[p])
    THEN /\ attempt' = [attempt EXCEPT ![p] = @ + 1]
         /\ tries' = [tries EXCEPT ![p] = @ + 1]
         /\ pc' = [pc EXCEPT ![p] = "attempting"]
         /\ UNCHANGED <<results, errors, value, waiters, fetched, parseCalls,
                        produced, raisedBy, doneQueue>>
    ELSE /\ UNCHANGED <<attempt, tries>>
         /\ AfterFetch(p, None, FetchFailed(errors, p))

\* One attempt ends with outcome o: on HTTP 200 fetch_page returns the text
\* (one of bodies); otherwise the outcome is logged, the backoff sleep
\* follows if attempt < 2, and the loop goes on.
AttemptEndsWith(p, o, bodies) ==
    /\ pc[p] = "attempting"
    /\ \A q \in Pages : pc[q] # "new"
    /\ IF IsSuccess(o)
       THEN /\ \E body \in bodies : AfterFetch(p, body, errors)
            /\ UNCHANGED <<attempt, tries, sleeps>>
       ELSE IF NeedsBackoff(attempt[p])
       THEN /\ sleeps' = [sleeps EXCEPT ![p] = Append(@, Backoff(attempt[p]))]
            /\ pc' = [pc EXCEPT ![p] = "sleeping"]
            /\ UNCHANGED <<attempt, tries, results, errors, value, waiters, fetched,
                           parseCalls, produced, raisedBy, doneQueue>>
       ELSE /\ NextIteration(p)
            /\ sleeps' = sleeps
    /\ UNCHANGED <<max_pages, max_concurrent, fetchCalls, collected, orch, elapsed,
                   summary, files>>

\* One attempt ends with outcome o and, on HTTP 200, any text the server may
\* send.
AttemptEnds(p, o) == AttemptEndsWith(p, o, Bodies)

\* asyncio.sleep returns.
Wake(p) ==
    /\ pc[p] = "sleeping"
    /\ NextIteration(p)
    /\ UNCHANGED <<max_pages, max_concurrent, sleeps, fetchCalls, collected,
                   orch, elapsed, summary, files>>

\* for coro in as_completed(tasks): await coro -- the next finished task, in
\* completion order; a task that ended with an exception re-raises it here
\* and scrape_all is left.
Collect ==
    /\ orch = "collect"
    /\ doneQueue # <<>>
    /\ doneQueue' = Tail(doneQueue)
    /\ IF Head(doneQueue) \in raisedBy
       THEN /\ orch' = "aborted"
            /\ collected' = collected
       ELSE /\ orch' = orch
            /\ collected' = collected + 1
    /\ UNCHANGED <<max_pages, max_concurrent, results, errors, value, waiters, pc,
                   attempt, tries, sleeps, fetchCalls, fetched, parseCalls, produced,
                   raisedBy, elapsed, summary, files>>

\* time.time() - start_time: 0.0 when the clock did not advance during the
\* run, which a backoff sleep of a second or more rules out.
ElapsedValues ==
    IF \A p \in Pages : sleeps[p] = <<>> THEN {"zero", "positive"} ELSE {"positive"}

\* a loop that is left as soon as one task has completed
LoopFinishedAtFirst(c, n) == c >= 1 \/ n = 0

\* as_completed has yielded, and scrape_all has awaited, all n tasks.
LoopFinished(c, n) == c = n

\* After the loop: elapsed, the three counters, then the Speed line, whose
\* division raises ZeroDivisionError when elapsed is 0.
Finalize ==
    /\ orch = "collect"
    /\ LoopFinished(collected, Cardinality(Pages))
    /\ \E e \in ElapsedValues :
          /\ elapsed' = e
          /\ summary' = <<[products |-> Len(results), errors |-> Len(errors)]>>
          /\ orch' = IF e = "zero" THEN "raised" ELSE "done"
    /\ UNCHANGED <<max_pages, max_concurrent, results, errors, value, waiters, pc,
                   attempt, tries, sleeps, fetchCalls, fetched, parseCalls, produced,
                   raisedBy, doneQueue, collected, files>>

\* an export that writes the error report before looking at results
ExportErrorsFirst(res, errs) ==
    (IF errs # <<>> THEN {"errors"} ELSE {}) \cup (IF res # <<>> THEN {"products"} ELSE {})

\* export_to_excel: the files written.  Without results it returns at once;
\* otherwise the products file, and the errors file if errors is not empty.
ExportToExcel(res, errs) ==
    IF res = <<>> THEN {}
    ELSE {"products"} \cup (IF errs # <<>> THEN {"errors"} ELSE {})

\* main(): once asyncio.run(scraper.scrape_all()) has returned, the summary
\* is printed and export_to_excel is called.
Export ==
    /\ orch = "done"
    /\ files' = ExportToExcel(results, errors)
    /\ orch' = "exported"
    /\ UNCHANGED <<max_pages, max_concurrent, results, errors, value, waiters, pc,
                   attempt, tries, sleeps, fetchCalls, fetched, parseCalls, produced,
                   raisedBy, doneQueue, collected, elapsed, summary>>

Next ==
    \/ \E p \in Pages : Start(p)
    \/ \E p \in Pages : Resume(p)
    \/ \E p \in Pages, o \in Outcomes : AttemptEnds(p, o)
    \/ \E p \in Pages : Wake(p)
    \/ Collect
    \/ Finalize
    \/ Export

Spec == Init /\ [][Next]_vars

\* Every step a task can take; the event loop runs every task that is ready,
\* and each network attempt and each sleep ends.
TaskStep(p) ==
    /\ p \in Pages
    /\ (Start(p) \/ Resume(p) \/ Wake(p) \/ \E o \in Outcomes : AttemptEnds(p, o))

FairSpec ==
    /\ Spec
    /\ \A p \in 1..MaxPages : WF_vars(TaskStep(p))
    /\ WF_vars(Collect)
    /\ WF_vars(Finalize)

\* ----------------------------------------------------------------- claims
\* scrape_all has left the as_completed loop.
LoopLeft == orch # "collect"

AllTasksDone == \A p \in Pages : pc[p] = "done"

\* C1: in every reachable state the number of tasks holding a semaphore
\* permit is at most the cap max_concurrent.
C1_CapRespected == Cardinality(Holders) <= max_concurrent

\* The cap is reached while more pages than permits were dispatched and a
\* task is queued for a permit.
C1_Witness ==
    /\ max_pages > max_concurrent
    /\ Cardinality(Holders) = max_concurrent
    /\ waiters # <<>>

\* C2: under fair scheduling every dispatched task eventually enters
\* fetch_page with a permit and completes, and scrape_all leaves the loop
\* and reaches finalization.
C2_EveryTaskCompletes ==
    <>(/\ orch \in {"done", "raised"}
       /\ \A p \in Pages : pc[p] = "done" /\ fetchCalls[p] = 1)

\* A run with more pages than permits (so some task had to wait) finished.
C2_Witness ==
    /\ orch \in {"done", "raised"}
    /\ max_pages > max_concurrent
    /\ AllTasksDone

\* The page's html was handed to parse_page.
OnSuccessPath(p) == parseCalls[p] >= 1

\* errors holds an ErrorRecord for the page.
InErrorReport(p) == \E i \in 1..Len(errors) : errors[i].page = p

\* C3: when scrape_all has completed, each page of 1..P is in exactly one
\* of {handed to parse_page, reported in errors}.
C3_ExactlyOne ==
    LoopLeft => \A p \in 1..max_pages : OnSuccessPath(p) # InErrorReport(p)

\* C4: fetch_page is called exactly once for each page of 1..P and for no
\* other page, and each call yields exactly one outcome (content or failure).
C4_OneFetchPerPage ==
    /\ DOMAIN fetchCalls = 1..max_pages
    /\ \A p \in DOMAIN fetchCalls :
          /\ fetchCalls[p] <= 1
          /\ Len(fetched[p]) <= fetchCalls[p]
          /\ \A i \in 1..Len(fetched[p]) : fetched[p][i] \in {"Success", "Failure"}
    /\ LoopLeft => \A p \in DOMAIN fetchCalls :
                      fetchCalls[p] = 1 /\ Len(fetched[p]) = 1

\* A finished run over the largest page range: every page fetched once, one
\* of them with content.
C4_Witness ==
    /\ orch = "done"
    /\ max_pages = MaxPages
    /\ \A p \in Pages : fetchCalls[p] = 1
    /\ \E p \in Pages : fetched[p] = <<"Success">>

\* C9: free permits plus permits held is always the cap, and when all tasks
\* have completed all permits are free again.
C9_PermitsConserved ==
    /\ value + Cardinality(Holders) = max_concurrent
    /\ AllTasksDone => value = max_concurrent

\* All tasks are over, one after an exhausted fetch and one after a
\* page-level parse error, and every permit is back.
C9_Witness ==
    /\ max_pages >= 1
    /\ AllTasksDone
    /\ value = max_concurrent
    /\ \E p \in Pages : fetched[p] = <<"Failure">>
    /\ \E i \in 1..Len(errors) : errors[i].error = "Parse error"

\* Number of 'Failed to fetch' ErrorRecords of a page in errors.
FetchErrors(p) ==
    Cardinality({i \in 1..Len(errors) :
                    errors[i].page = p /\ errors[i].error = "Failed to fetch"})

NonOk == Outcomes \ {"http200"}

\* C5: attempts are made in order until the first HTTP 200 or until 3 were
\* made: never a 4th attempt, no attempt after a 200 (the task is over in
\* the same step, with content), and after an attempt that ends with any
\* other status, a timeout or a transport error, while fewer than 3 were
\* made, the fetch goes on to the next attempt (through its backoff).
C5_Step ==
    \A p \in Pages :
       /\ tries'[p] <= 3
       /\ tries'[p] \in {tries[p], tries[p] + 1}
       /\ AttemptEnds(p, "http200") =>
             pc'[p] = "done" /\ fetched'[p] = <<"Success">> /\ tries'[p] = tries[p]
       /\ pc[p] = "done" => tries'[p] = tries[p]
       /\ \A o \in NonOk :
             AttemptEnds(p, o) /\ tries[p] < 3 =>
                /\ pc'[p] = "sleeping"
                /\ fetched'[p] = <<>>
       /\ Wake(p) => pc'[p] = "attempting" /\ tries'[p] = tries[p] + 1
       /\ \A o \in NonOk :
             AttemptEnds(p, o) /\ tries[p] = 3 =>
                pc'[p] = "done" /\ fetched'[p] = <<"Failure">>

C5_RetryLoop == [][C5_Step]_vars

\* One fetch stopped at its first 200, on the 2nd attempt; another used all
\* 3 attempts.
C5_Witness ==
    \E p, q \in Pages :
       /\ pc[p] = "done" /\ tries[p] = 2 /\ fetched[p] = <<"Success">>
       /\ pc[q] = "done" /\ tries[q] = 3

\* C6 as stated: the wait before the attempt with 0-based index i is 2^i
\* (sleeps[p][i] is the wait that precedes attempt index i).
C6_WaitIsTwoToTheIndex ==
    \A p \in Pages : \A i \in 1..Len(sleeps[p]) : sleeps[p][i] = 2 ^ i

\* C6 amended: the wait before the attempt with 0-based index i, i in {1, 2},
\* is 2^(i-1): 1 before attempt index 1, 2 before attempt index 2.
C6_WaitIsTwoToTheFailedIndex ==
    \A p \in Pages :
       /\ Len(sleeps[p]) <= 2
       /\ \A i \in 1..Len(sleeps[p]) : sleeps[p][i] = 2 ^ (i - 1)

\* A fetch is in its third attempt (index 2), both waits behind it.
C6_Witness ==
    \E p \in Pages : pc[p] = "attempting" /\ attempt[p] = 2 /\ Len(sleeps[p]) = 2

\* C7: a backoff sleep only happens between two consecutive attempts of a
\* page: none before the first attempt, none after the third; the first is
\* at least 1 and the second at least 2; an exhausted fetch slept twice.
C7_SleepsBetweenAttempts ==
    \A p \in Pages :
       /\ tries[p] = 0 => sleeps[p] = <<>>
       /\ pc[p] = "sleeping" => tries[p] < 3 /\ Len(sleeps[p]) = tries[p]
       /\ pc[p] # "sleeping" /\ tries[p] >= 1 => Len(sleeps[p]) = tries[p] - 1
       /\ Len(sleeps[p]) >= 1 => sleeps[p][1] >= 1
       /\ Len(sleeps[p]) >= 2 => sleeps[p][2] >= 2
       /\ fetched[p] = <<"Failure">> => Len(sleeps[p]) = 2

\* An exhausted fetch with its two sleeps.
C7_Witness ==
    \E p \in Pages : fetched[p] = <<"Failure">> /\ Len(sleeps[p]) = 2 /\ tries[p] = 3

\* C8: fetch_page appends an ErrorRecord for its page and returns a failure
\* iff all 3 attempts ended without HTTP 200: exactly one record, appended
\* in the step that ends the 3rd attempt; a fetch that got HTTP 200 returns
\* the body and appends no fetch ErrorRecord.
C8_State ==
    \A p \in Pages :
       /\ FetchErrors(p) = (IF fetched[p] = <<"Failure">> THEN 1 ELSE 0)
       /\ fetched[p] = <<"Failure">> => tries[p] = 3 /\ pc[p] = "done"
       /\ fetched[p] = <<"Success">> => FetchErrors(p) = 0

C8_Step ==
    \A p \in Pages :
       /\ \A o \in NonOk :
             AttemptEnds(p, o) /\ tries[p] = 3 =>
                /\ errors' = Append(errors, [page |-> p, error |-> "Failed to fetch"])
                /\ fetched'[p] = <<"Failure">>
                /\ parseCalls'[p] = 0
       /\ \A o \in NonOk :
             AttemptEnds(p, o) /\ tries[p] < 3 => errors' = errors
       /\ AttemptEnds(p, "http200") =>
             /\ fetched'[p] = <<"Success">>
             /\ \A q \in Pages : FetchErrors(q)' = FetchErrors(q)
       /\ FetchErrors(p)' # FetchErrors(p) =>
             \E o \in NonOk : AttemptEnds(p, o) /\ tries[p] = 3

C8_ErrorIffExhausted == [][C8_Step /\ C8_State']_vars

\* An exhausted fetch with its single ErrorRecord, next to a page that was
\* fetched with HTTP 200 and has none.
C8_Witness ==
    \E p, q \in Pages :
       /\ fetched[p] = <<"Failure">> /\ FetchErrors(p) = 1
       /\ fetched[q] = <<"Success">> /\ FetchErrors(q) = 0

\* The records of a page in results, in order.
RECURSIVE RecordsOf(_, _)
RecordsOf(res, p) ==
    IF res = <<>> THEN <<>>
    ELSE IF Head(res).page = p THEN <<Head(res)>> \o RecordsOf(Tail(res), p)
    ELSE RecordsOf(Tail(res), p)

\* C10: the failure of any pages neither aborts scrape_all nor costs other
\* pages their records: no task ends with an exception, scrape_all is never
\* left through one, and once the loop is left every task has completed and
\* results holds, for every page, the records parse_page produced for it.
C10_FailuresIsolated ==
    /\ raisedBy = {}
    /\ orch # "aborted"
    /\ LoopLeft => /\ AllTasksDone
                   /\ collected = max_pages
                   /\ \A p \in Pages : RecordsOf(results, p) = produced[p]

\* The run finished with a failed page (exhausted fetch or page-level parse
\* error) next to a page whose records are in results.
C10_Witness ==
    /\ orch = "done"
    /\ \E p, q \in Pages :
          /\ InErrorReport(p)
          /\ produced[q] # <<>>
          /\ RecordsOf(results, q) = produced[q]

\* ------------------------------------------------- the end-to-end scenario
\* Page 2 answers HTTP 500 to every attempt; pages 1 and 3 answer HTTP 200
\* with two well-formed listings each.
ScenarioOutcome(p) == IF p = 2 THEN "http500" ELSE "http200"

ScenarioBody(p) == [text |-> "html", listings |-> <<"ok", "ok">>]

ScenarioInit == \E C \in 1..MaxConcurrent : InitWith(3, C)

ScenarioNext ==
    \/ \E p \in Pages : Start(p)
    \/ \E p \in Pages : Resume(p)
    \/ \E p \in Pages : AttemptEndsWith(p, ScenarioOutcome(p), {ScenarioBody(p)})
    \/ \E p \in Pages : Wake(p)
    \/ Collect
    \/ Finalize
    \/ Export

ScenarioSpec == ScenarioInit /\ [][ScenarioNext]_vars

\* C11: in the scenario, for every cap and every interleaving, the final
\* state has exactly 4 ProductRecords, 2 tagged page 1 and 2 tagged page 3,
\* and exactly 1 ErrorRecord, which is for page 2.
C11_ScenarioFinalState ==
    LoopLeft =>
       /\ Len(results) = 4
       /\ Len(RecordsOf(results, 1)) = 2
       /\ Len(RecordsOf(results, 3)) = 2
       /\ Len(errors) = 1
       /\ errors[1].page = 2

\* The scenario has run to its end, page 3 parsed before page 1.
C11_Witness ==
    /\ orch = "done"
    /\ Len(results) = 4
    /\ results[1].page = 3
    /\ Len(errors) = 1

\* C12: the throughput division at finalization is guarded by elapsed > 0:
\* no run, a run with a measured duration of 0 included, ends finalization
\* with a division fault.
C12_NoDivisionFault == orch # "raised"

\* C13: whenever errors is not empty when export_to_excel has run, the
\* error report file has been written, whatever results holds.
C13_ErrorReportWritten ==
    orch = "exported" /\ errors # <<>> => "errors" \in files

\* The set of the elements of a sequence.
Elements(seq) == {seq[i] : i \in 1..Len(seq)}

\* What one page contributes to the final sets, from its input alone: a
\* record per well-formed listing of a readable body, a parse ErrorRecord
\* for an unreadable one, a fetch ErrorRecord for three failed attempts.
RecordsFor(p, body) ==
    IF body.text = "html"
    THEN {[page |-> p, listing |-> i] :
             i \in {j \in 1..Len(body.listings) : body.listings[j] = "ok"}}
    ELSE {}

ErrorsFor(p, body) ==
    IF body.text = "unreadable" THEN {[page |-> p, error |-> "Parse error"]} ELSE {}

\* C14: for fixed inputs the final sets of ProductRecords and ErrorRecords
\* are the same under every interleaving and every cap.  Stated per step:
\* the step that ends the fetch of page p adds to the two sets exactly what
\* p's own input (its attempt outcomes and its body) determines, whatever the
\* rest of the state is; every other step leaves both sets as they are; each
\* page ends its fetch once, and has done so when the loop is left.  The
\* final sets are then the union over the pages of these contributions.
C14_Step ==
    /\ \A p \in Pages :
          /\ \A body \in Bodies :
                AttemptEndsWith(p, "http200", {body}) =>
                   /\ Elements(results') = Elements(results) \cup RecordsFor(p, body)
                   /\ Elements(errors') = Elements(errors) \cup ErrorsFor(p, body)
          /\ fetched[p] = <<>> /\ fetched'[p] = <<"Failure">> =>
                /\ Elements(results') = Elements(results)
                /\ Elements(errors') =
                      Elements(errors) \cup {[page |-> p, error |-> "Failed to fetch"]}
          /\ fetched[p] # <<>> => fetched'[p] = fetched[p]
    /\ fetched' = fetched =>
          Elements(results') = Elements(results) /\ Elements(errors') = Elements(errors)
    /\ LoopLeft' => \A p \in Pages : Len(fetched'[p]) = 1

C14_SetsDeterminedByInputs == [][C14_Step]_vars

\* Both pages are over, page 2 before page 1, with records in results and
\* in errors.
C14_Witness ==
    /\ AllTasksDone
    /\ max_pages = 2
    /\ doneQueue = <<2, 1>>
    /\ results # <<>>
    /\ errors # <<>>

\* ------------------------------------------------------ parse_page alone
\* parse_page called on a scraper that has fetched nothing, once per page
\* number, with any text of up to MaxParseListings listings.
ParseBodies ==
    {[text |-> "unreadable", listings |-> <<>>]}
    \cup {[text |-> "html", listings |-> l] : l \in SeqsUpTo({"ok", "bad"}, MaxParseListings)}

ParseCall(p, html) ==
    LET parsed == ParsePage(html, p, results, errors)
    IN  /\ parseCalls[p] = 0
        /\ parseCalls' = [parseCalls EXCEPT ![p] = 1]
        /\ produced' = [produced EXCEPT ![p] =
                            SubSeq(parsed.results, Len(results) + 1, Len(parsed.results))]
        /\ results' = parsed.results
        /\ errors' = parsed.errors
        /\ raisedBy' = IF parsed.raised THEN raisedBy \cup {p} ELSE raisedBy
        /\ UNCHANGED <<max_pages, max_concurrent, value, waiters, pc, attempt, tries,
                       sleeps, fetchCalls, fetched, doneQueue, collected, orch,
                       elapsed, summary, files>>

ParseInit == \E P \in 1..MaxPages, C \in 1..MaxConcurrent : InitWith(P, C)

ParseNext == \E p \in Pages, html \in ParseBodies : ParseCall(p, html)

ParseSpec == ParseInit /\ [][ParseNext]_vars

Malformed(listings) == {i \in 1..Len(listings) : listings[i] # "ok"}

\* C15: parse_page on a page with K listings appends, after what results
\* already holds, one record per well-formed listing, tagged with the page
\* and in listing order: K records when all are well-formed, K-1 when
\* exactly one is malformed; a malformed listing adds no ErrorRecord and
\* does not stop the listings after it from being parsed.
C15_Step ==
    \A p \in Pages, html \in ParseBodies :
       ParseCall(p, html) /\ html.text = "html" =>
          LET K == Len(html.listings)
              new == SubSeq(results', Len(results) + 1, Len(results'))
          IN  /\ SubSeq(results', 1, Len(results)) = results
              /\ Len(new) = K - Cardinality(Malformed(html.listings))
              /\ Malformed(html.listings) = {} => Len(new) = K
              /\ Cardinality(Malformed(html.listings)) = 1 => Len(new) = K - 1
              /\ \A i \in 1..Len(new) :
                    /\ new[i].page = p
                    /\ new[i].listing \in (1..K) \ Malformed(html.listings)
              /\ \A i, j \in 1..Len(new) : i < j => new[i].listing < new[j].listing
              /\ errors' = errors
              /\ raisedBy' = raisedBy

C15_RecordPerWellFormedListing == [][C15_Step]_vars

\* A page of 3 listings whose second is malformed has been parsed: records
\* for listings 1 and 3, no ErrorRecord.
C15_Witness ==
    \E p \in Pages :
       /\ produced[p] = <<[page |-> p, listing |-> 1], [page |-> p, listing |-> 3]>>
       /\ ~InErrorReport(p)

\* Number of parse ErrorRecords of a page in errors.
ParseErrors(p) ==
    Cardinality({i \in 1..Len(errors) :
                    errors[i].page = p /\ errors[i].error = "Parse error"})

Unreadable == [text |-> "unreadable", listings |-> <<>>]

\* C16: a page-level parse fault is caught inside parse_page: the step in
\* which page p's unreadable text is parsed appends exactly one ErrorRecord
\* for p and no ProductRecord, raises nothing into the task or scrape_all,
\* and ends with the task done and its permit given back.
C16_Step ==
    \A p \in Pages :
       /\ AttemptEndsWith(p, "http200", {Unreadable}) =>
             /\ errors' = Append(errors, [page |-> p, error |-> "Parse error"])
             /\ results' = results
             /\ raisedBy' = {}
             /\ orch' # "aborted"
             /\ pc'[p] = "done"
             /\ value' + Cardinality({q \in Pages : pc'[q] \in {"granted", "attempting",
                                                               "sleeping"}}) = max_concurrent
       /\ ParseErrors(p)' <= 1
       /\ ParseErrors(p)' = 1 => RecordsOf(results', p) = <<>> /\ pc'[p] = "done"
       /\ orch' # "aborted"

C16_PageFaultCaught == [][C16_Step]_vars

\* Every task is over, one of them after a page-level parse fault, the
\* loop was left normally and all permits are free.
C16_Witness ==
    /\ orch = "done"
    /\ value = max_concurrent
    /\ \E p \in Pages : ParseErrors(p) = 1 /\ RecordsOf(results, p) = <<>>

\* C17: finalization (elapsed, the logged counters) happens only after all
\* P tasks have completed and been collected, in whatever order; from then
\* on no task is left to append, and the logged product and error counts
\* are the lengths of results and errors.
C17_FinalizeAfterAllTasks ==
    (LoopLeft \/ summary # <<>> \/ elapsed # "unset") =>
       /\ AllTasksDone
       /\ collected = max_pages
       /\ doneQueue = <<>>
       /\ summary = <<[products |-> Len(results), errors |-> Len(errors)]>>

\* Finalization has run after two pages that completed out of dispatch
\* order, with products and errors to count.
C17_Witness ==
    /\ orch = "done"
    /\ max_pages = 2
    /\ results # <<>> /\ results[1].page = 2
    /\ summary = <<[products |-> Len(results), errors |-> 1]>>

IsPrefix(s1, s2) == Len(s1) <= Len(s2) /\ SubSeq(s2, 1, Len(s1)) = s1

RECURSIVE TotalProduced(_, _)
TotalProduced(prod, S) ==
    IF S = {} THEN 0
    ELSE LET p == CHOOSE q \in S : TRUE
         IN  Len(prod[p]) + TotalProduced(prod, S \ {p})

\* The records of each page lie in one block of res.
Contiguous(res) ==
    \A i, k \in 1..Len(res) :
       i < k /\ res[i].page = res[k].page =>
          \A j \in i..k : res[j].page = res[i].page

\* C18: appends of concurrent page tasks to results and errors are never
\* lost or interleaved: every step keeps what the two lists held and adds
\* exactly the appends it performs (the records and the ErrorRecord of the
\* page whose fetch it ends, nothing otherwise), so the lengths count the
\* appends made so far; and the records of a page form one block.
C18_Step ==
    /\ IsPrefix(results, results')
    /\ IsPrefix(errors, errors')
    /\ \A p \in Pages :
          /\ \A body \in Bodies :
                AttemptEndsWith(p, "http200", {body}) =>
                   /\ Len(results') = Len(results) + Cardinality(RecordsFor(p, body))
                   /\ Len(errors') = Len(errors) + Cardinality(ErrorsFor(p, body))
          /\ fetched[p] = <<>> /\ fetched'[p] = <<"Failure">> =>
                Len(results') = Len(results) /\ Len(errors') = Len(errors) + 1
    /\ fetched' = fetched => results' = results /\ errors' = errors
    /\ Len(results') = TotalProduced(produced', Pages)
    /\ Contiguous(results')

InFetch == {p \in Pages : pc[p] \in {"attempting", "sleeping"}}

Granted == {p \in Pages : pc[p] = "granted"}

\* C19: a task keeps its permit from acquisition until it is done: going
\* into and out of a backoff sleep frees no permit and wakes no waiter, a
\* permit only comes back in a step that ends a task, a sleeping task
\* counts against the cap, and while max_concurrent tasks are in fetch_page
\* no other page's first attempt starts.
C19_Step ==
    /\ \A p \in Pages :
          (pc[p] \in {"attempting", "sleeping"} /\ pc'[p] \in {"attempting", "sleeping"}
              /\ pc'[p] # pc[p]) =>
             /\ value' = value
             /\ waiters' = waiters
             /\ Granted' = Granted
    /\ (value' > value \/ Granted' \ Granted # {}) =>
          \E p \in Pages : pc[p] \in {"attempting", "sleeping"} /\ pc'[p] = "done"
    /\ Cardinality(InFetch') <= max_concurrent
    /\ value' = max_concurrent - Cardinality(InFetch') - Cardinality(Granted')
    /\ Cardinality(InFetch) = max_concurrent =>
          \A q \in Pages : tries[q] = 0 => tries'[q] = 0

C19_PermitHeldThroughBackoff == [][C19_Step]_vars

\* All permits are held by tasks in fetch_page, one of them asleep in
\* backoff, while another page waits without having made an attempt.
C19_Witness ==
    /\ Cardinality(InFetch) = max_concurrent
    /\ value = 0
    /\ \E p \in Pages : pc[p] = "sleeping"
    /\ \E q \in Pages : pc[q] = "waiting" /\ tries[q] = 0

\* The positions of the ErrorRecords of page p.
ErrorsOf(p) == {i \in DOMAIN errors : errors[i].page = p}

FetchFailureRecorded(p) ==
    \E i \in DOMAIN errors : errors[i] = [page |-> p, error |-> "Failed to fetch"]

\* C20: every ErrorRecord belongs to a page of 1..max_pages, a page has at
\* most one ErrorRecord, so errors is no longer than max_pages; and a page
\* with a fetch-failure ErrorRecord has no ProductRecord and was never
\* handed to parse_page.
C20_OneErrorPerPage ==
    /\ \A i \in DOMAIN errors : errors[i].page \in Pages
    /\ \A p \in Pages : Cardinality(ErrorsOf(p)) <= 1
    /\ Len(errors) <= max_pages
    /\ \A p \in Pages :
          FetchFailureRecorded(p) =>
             /\ \A i \in DOMAIN results : results[i].page # p
             /\ parseCalls[p] = 0

\* Both kinds of ErrorRecord are present, one page each, and the page whose
\* fetch failed has left nothing in results.
C20_Witness ==
    /\ max_pages = 2
    /\ Len(errors) = 2
    /\ \E p \in Pages : FetchFailureRecorded(p) /\ parseCalls[p] = 0
    /\ \E q \in Pages : ~FetchFailureRecorded(q) /\ ErrorsOf(q) # {} /\ parseCalls[q] = 1

====
